---- MODULE Spec2Model ----
(***************************************************************************)
(* A model of owmeta's bundle subsystem (src/owmeta/bundle.py): the        *)
(* Installer, the Fetcher with its HTTP loader, and the Bundle handle's    *)
(* resolution.  The bundles directory is a variable; each operation of the *)
(* code is an action, or a chain of actions where the code can interleave  *)
(* with another caller.                                                    *)
(***************************************************************************)
EXTENDS Integers, Sequences, FiniteSets, TLC

VARIABLES
    bundles,    \* the bundles directory: bundle id -> version -> directory
    lock,       \* holder of <staging directory>/.lock for the bundle being installed
    store,      \* the Installer's source graph: context id -> content
    imports,    \* the Installer's imports context, if configured, and its
                \* (s, imports, o) triples
    menu,       \* which descriptors callers pass to install(): "any" or "plain"
    callers,    \* the installers that call install()
    calls,      \* install() calls made so far
    pc,         \* where each installer is inside install()
    desc,       \* the descriptor of each installer's current call
    err,        \* the exception propagating out of each installer's call
    origErr,    \* the exception _install raised in each installer's call
    failed,     \* the step of _install that raised in each installer's call
    remotes,    \* the remotes of the Fetcher: each a sequence of accessor configs
    fpc,        \* where each fetch() call is
    wanted,     \* the bundle_version argument of each fetch() call
    bversion,   \* the local bundle_version of each fetch() call
    position,   \* the loader _get_bundle_loaders yielded last in each call
    log,        \* the loaders each fetch() call tried, and how each ended
    ferr,       \* the exception each fetch() call raised
    fdir,       \* the directory each fetch() call returned
    handle,     \* a Bundle handle: its version and whether it was given remotes
    owmDir,     \* whether the project directory DEFAULT_OWM_DIR exists
    rpc,        \* where the handle's resolve() call is
    rerr,       \* the exception resolve() raised
    rdir,       \* the directory resolve() returned
    listing,    \* the entries of a bundle's id directory, as scandir lists them
    located,    \* what the last local lookup in listing came to
    scope,      \* a Bundle handle used as a context manager: where it is, and
                \* whether the store of its conf is open
    probe,      \* a pattern, an identifier, and what the pattern said of it
    pair,       \* two Remote values, and what comparing and hashing them gave
    last,       \* the descriptor, graphs/index and graphs/hashes of the last
                \* install() that succeeded
    reader,     \* a Bundle handle whose contexts property is read: its
                \* _contexts, and what the reads did and returned
    loader      \* one HTTPBundleLoader: what its index URL serves, its
                \* _index, and the calls made on it

ivars == <<lock, store, imports, menu, callers, calls, pc, desc, err, origErr, failed>>

fvars == <<remotes, fpc, wanted, bversion, position, log, ferr, fdir>>

rvars == <<handle, owmDir, rpc, rerr, rdir>>

xvars == <<listing, located, scope, probe, pair>>

yvars == <<reader, loader>>

vars == <<bundles, ivars, fvars, rvars, xvars, last, yvars>>

----------------------------------------------------------------------------
\* Bounds of the model.

\* install() calls in one behaviour
MaxInstalls == 2

\* version numbers are 1..MaxVersion
MaxVersion == 2

\* reads of the contexts property of one handle
MaxReads == 3

\* calls on one loader
MaxCalls == 3

----------------------------------------------------------------------------
\* Values.

\* Python's None where a version is expected
NoVersion == -1

Versions == 1..MaxVersion

\* context identifiers are strings: sequences of characters
CtxA == <<"a">>
CtxAB == <<"a", "b">>
CtxX == <<"x">>
CtxY == <<"y">>
CtxZ == <<"z">>

SrcCtx == {CtxA, CtxAB}
Ctx == {CtxA, CtxAB, CtxX, CtxY, CtxZ}

Installers == {"i1", "i2"}

\* the bundle install() builds, and the bundles it may depend on
BundleB == "B"
DepIds == {"D1", "D2"}
BundleIds == {BundleB} \cup DepIds

\* files named by a descriptor; only SourceFiles exist in the source directory
FileNames == {"f1", "f2"}
SourceFiles == {"f1"}

NoErr == [kind |-> "none", at |-> "none", imports |-> {}]

Raise(kind, at) == [kind |-> kind, at |-> at, imports |-> {}]

SeqToSet(s) == {s[k] : k \in DOMAIN s}

\* every ordering of a finite set: the orders in which Python may iterate a set
Perms(S) ==
    {s \in [1..Cardinality(S) -> S] : \A x \in S : \E k \in DOMAIN s : s[k] = x}

----------------------------------------------------------------------------
\* Matchers (bundle.py 896-957).  A pattern is compiled to a regular
\* expression, here a sequence of characters in which "." is any character
\* and a following "*" or "?" repeats the atom before it.

\* GlobURIPattern.__init__: '*' -> '.*', '?' -> '.?', '[!' -> '[^'
RECURSIVE GlobToRegex(_)
GlobToRegex(g) ==
    IF g = <<>> THEN <<>>
    ELSE IF Head(g) = "*" THEN <<".", "*">> \o GlobToRegex(Tail(g))
    ELSE IF Head(g) = "?" THEN <<".", "?">> \o GlobToRegex(Tail(g))
    ELSE IF Len(g) >= 2 /\ g[1] = "[" /\ g[2] = "!"
         THEN <<"[", "^">> \o GlobToRegex(Tail(Tail(g)))
    ELSE <<Head(g)>> \o GlobToRegex(Tail(g))

AtomMatches(atom, ch) == atom = "." \/ atom = ch

\* re.match(pattern, s): the pattern matches at the start of s
RECURSIVE RegexMatch(_, _)
RegexMatch(re, s) ==
    IF re = <<>> THEN TRUE
    ELSE LET atom == Head(re)
             rest == Tail(re)
         IN IF rest # <<>> /\ Head(rest) = "*"
            THEN \/ RegexMatch(Tail(rest), s)
                 \/ s # <<>> /\ AtomMatches(atom, Head(s)) /\ RegexMatch(re, Tail(s))
            ELSE IF rest # <<>> /\ Head(rest) = "?"
            THEN \/ RegexMatch(Tail(rest), s)
                 \/ /\ s # <<>>
                    /\ AtomMatches(atom, Head(s))
                    /\ RegexMatch(Tail(rest), Tail(s))
            ELSE s # <<>> /\ AtomMatches(atom, Head(s)) /\ RegexMatch(rest, Tail(s))

\* make_pattern: 'rgx:...' is a regular expression, anything else a glob
make_pattern(p) ==
    IF p.kind = "rgx" THEN p.text ELSE GlobToRegex(p.text)

\* RegexURIPattern.__call__
PatternMatches(p, uri) == RegexMatch(make_pattern(p), uri)

\* URIIncludeFunc.__call__
IncludeMatches(inc, uri) == uri = inc

GlobAStar == [kind |-> "glob", text |-> <<"a", "*">>]

Patterns == {GlobAStar}

----------------------------------------------------------------------------
\* Descriptors (bundle.py 101-206, 878-893).

\* DependencyDescriptor(id, version)
DependencyDescriptors == {[id |-> d, version |-> NoVersion] : d \in DepIds}

\* FilesDescriptor, or None when the descriptor names no files
NoFiles == [present |-> FALSE, includes |-> {}]

FilesDescriptors ==
    {NoFiles} \cup {[present |-> TRUE, includes |-> {f}] : f \in FileNames}

Descriptors ==
    [id : {BundleB}, version : {1}, includes : SUBSET {CtxA},
     patterns : SUBSET Patterns, dependencies : SUBSET DependencyDescriptors,
     files : FilesDescriptors]

\* descriptors of contexts named one by one, without files
PlainDescriptors == {d \in Descriptors : d.patterns = {} /\ d.files = NoFiles}

NoDesc ==
    [id |-> BundleB, version |-> 1, includes |-> {}, patterns |-> {},
     dependencies |-> {}, files |-> NoFiles]

\* a selection that looks at the includes only
RECURSIVE select_by_includes(_, _)
select_by_includes(descriptor, order) ==
    IF order = <<>> THEN <<>>
    ELSE LET ctx == Head(order)
             byInclude ==
                 IF \E inc \in descriptor.includes : IncludeMatches(inc, ctx)
                 THEN <<ctx>> ELSE <<>>
         IN byInclude \o select_by_includes(descriptor, Tail(order))

\* _select_contexts: the contexts of the graph, in the order the graph
\* enumerates them, each yielded once if an include matches it and once more
\* if a pattern matches it
RECURSIVE _select_contexts(_, _)
_select_contexts(descriptor, order) ==
    IF order = <<>> THEN <<>>
    ELSE LET ctx == Head(order)
             byInclude ==
                 IF \E inc \in descriptor.includes : IncludeMatches(inc, ctx)
                 THEN <<ctx>> ELSE <<>>
             byPattern ==
                 IF \E pat \in descriptor.patterns : PatternMatches(pat, ctx)
                 THEN <<ctx>> ELSE <<>>
         IN byInclude \o byPattern \o _select_contexts(descriptor, Tail(order))

\* _select_files: the explicit includes, each of which must exist
_select_files(descriptor) ==
    IF ~descriptor.files.present THEN [err |-> NoErr, files |-> {}]
    ELSE IF \E f \in descriptor.files.includes : f \notin SourceFiles
    THEN [err |-> Raise("Exception", "_select_files"), files |-> {}]
    ELSE [err |-> NoErr, files |-> descriptor.files.includes]

----------------------------------------------------------------------------
\* The bundles directory.  A version directory holds graphs/ (index, hashes,
\* the <hexdigest>.nt files), files/ (hashes, the copied files) and manifest.

NoDir ==
    [exists |-> FALSE, graphs |-> FALSE, files |-> FALSE, manifest |-> FALSE,
     hasIndex |-> FALSE, index |-> <<>>, hashes |-> <<>>, nt |-> {},
     hasFileHashes |-> FALSE, fileHashes |-> {}, copied |-> {}]

\* the sha224 digest of a context's canonical serialization, and its hex form
Digest(content) == <<"sha224", content>>
HexDigest(content) == <<"hex", content>>
gen_name(content) == <<HexDigest(content), ".nt">>

IndexRecord(ctx, content) == [ctx |-> ctx, fname |-> gen_name(content)]
HashRecord(ctx, content) == [ctx |-> ctx, digest |-> Digest(content)]

\* an installed bundle with the given contexts
InstalledDir(ctxs) ==
    [NoDir EXCEPT !.exists = TRUE, !.graphs = TRUE, !.files = TRUE,
                  !.manifest = TRUE, !.hasIndex = TRUE,
                  !.index = [k \in DOMAIN ctxs |-> IndexRecord(ctxs[k], "t0")],
                  !.hashes = [k \in DOMAIN ctxs |-> HashRecord(ctxs[k], "t0")],
                  !.nt = {gen_name("t0")},
                  !.hasFileHashes = TRUE]

\* bundle_directory(bundles_directory, ident, version)
bundle_directory(ident, version) == [id |-> ident, version |-> version]

DirAt(fs, bdir) == fs[bdir.id][bdir.version]

\* Bundle._get_bundle_directory: the pinned version, or the largest version
\* directory of the bundle
BundleNotFound == Raise("BundleNotFound", "_get_bundle_directory")

_get_bundle_directory(fs, ident, pinned) ==
    LET present == {v \in Versions : fs[ident][v].exists}
        latest == IF present = {} THEN 0
                  ELSE CHOOSE v \in present : \A w \in present : w <= v
        version == IF pinned = NoVersion THEN latest ELSE pinned
    IN IF pinned = NoVersion /\ present = {}
       THEN [err |-> BundleNotFound, dir |-> bundle_directory(ident, 1)]
       ELSE IF version = 0 \/ version \notin present
       THEN [err |-> BundleNotFound, dir |-> bundle_directory(ident, 1)]
       ELSE [err |-> NoErr, dir |-> bundle_directory(ident, version)]

\* Bundle.resolve, lines 233-245, after the local lookup failed: the local
\* variable 'remotes' is assigned only when the handle was given remotes, and
\* is read next; with remotes the Fetcher is called, without any the
\* BundleNotFound is raised again
resolve_remotes(self_remotes, owm_exists, project_remotes) ==
    LET bound == self_remotes # <<>>
        found == IF self_remotes = <<>> /\ owm_exists THEN project_remotes
                 ELSE self_remotes
    IN IF ~bound THEN [err |-> Raise("UnboundLocalError", "resolve"), remotes |-> <<>>]
       ELSE IF found # <<>> THEN [err |-> NoErr, remotes |-> found]
       ELSE [err |-> BundleNotFound, remotes |-> <<>>]

\* Bundle.resolve on a handle that was given no remotes
resolve_no_remotes(fs, ident, pinned) ==
    LET r == _get_bundle_directory(fs, ident, pinned)
    IN IF r.err = NoErr THEN r
       ELSE [err |-> resolve_remotes(<<>>, FALSE, <<>>).err, dir |-> r.dir]

\* Bundle.contexts on a fresh handle without remotes: the context ids of the
\* index of the resolved directory
contexts(fs, ident, pinned) ==
    LET r == resolve_no_remotes(fs, ident, pinned)
    IN IF r.err # NoErr THEN [err |-> r.err, contexts |-> {}]
       ELSE IF ~(DirAt(fs, r.dir).graphs /\ DirAt(fs, r.dir).hasIndex)
       THEN [err |-> Raise("Exception", "contexts"), contexts |-> {}]
       ELSE [err |-> NoErr,
             contexts |-> {rec.ctx : rec \in SeqToSet(DirAt(fs, r.dir).index)}]

----------------------------------------------------------------------------
\* Installer (bundle.py 667-835).

\* yarom.rdfUtils.transitive_lookup(graph, start, predicate, seen): the
\* border is expanded along the imports edges until nothing unseen is left
RECURSIVE transitive_lookup(_, _, _, _)
transitive_lookup(edges, border, seen, res) ==
    IF border = {} THEN [res |-> res, seen |-> seen]
    ELSE LET new == {e[2] : e \in {e \in edges : e[1] \in border}} \ seen
         IN transitive_lookup(edges, new, seen \cup new, res \cup border)

\* the loop of _write_context_data over the selected contexts: the contexts
\* imported, directly or not, by one of them
RECURSIVE imported_contexts(_, _, _)
imported_contexts(edges, selected, imported) ==
    IF selected = <<>> THEN imported
    ELSE LET r == transitive_lookup(edges, {Head(selected)}, imported, {})
         IN imported_contexts(edges, Tail(selected), r.seen \cup r.res)

\* the inner loop of _cover_with_dependencies over one bundle's contexts
RECURSIVE cover_with_bundle(_, _)
cover_with_bundle(uncovered, ctxs) ==
    IF ctxs = <<>> THEN [err |-> NoErr, uncovered |-> uncovered]
    ELSE IF Head(ctxs) \notin uncovered
    THEN [err |-> Raise("KeyError", "_cover_with_dependencies"),
          uncovered |-> uncovered]
    ELSE IF uncovered \ {Head(ctxs)} = {}
    THEN [err |-> NoErr, uncovered |-> {}]
    ELSE cover_with_bundle(uncovered \ {Head(ctxs)}, Tail(ctxs))

\* Installer._cover_with_dependencies, for the dependencies in the order
\* given: every outcome that some iteration order of the bundles' context
\* sets produces
RECURSIVE _cover_with_dependencies(_, _, _)
_cover_with_dependencies(fs, uncovered, dependencies) ==
    IF dependencies = <<>> THEN {[err |-> NoErr, uncovered |-> uncovered]}
    ELSE LET d == Head(dependencies)
             bnd == contexts(fs, d.id, d.version)
         IN IF bnd.err # NoErr THEN {[err |-> bnd.err, uncovered |-> uncovered]}
            ELSE UNION {IF o.err # NoErr THEN {o}
                        ELSE _cover_with_dependencies(fs, o.uncovered, Tail(dependencies)) :
                        o \in {cover_with_bundle(uncovered, cs) : cs \in Perms(bnd.contexts)}}

\* Installer._set_up_directories: makedirs(graphs), makedirs(files); an
\* OSError other than EEXIST is raised again.  fault names the makedirs call
\* that the operating system refuses, if any.
MkdirFaults == {"none", "graphs", "files"}

_set_up_directories(dir, fault) ==
    IF dir.graphs THEN [err |-> NoErr, dir |-> dir]
    ELSE IF fault = "graphs"
    THEN [err |-> Raise("OSError", "makedirs graphs"), dir |-> dir]
    ELSE IF dir.files THEN [err |-> NoErr, dir |-> [dir EXCEPT !.graphs = TRUE]]
    ELSE IF fault = "files"
    THEN [err |-> Raise("OSError", "makedirs files"),
          dir |-> [dir EXCEPT !.graphs = TRUE]]
    ELSE [err |-> NoErr, dir |-> [dir EXCEPT !.graphs = TRUE, !.files = TRUE]]

\* Installer._write_file_hashes
_write_file_hashes(dir, descriptor) ==
    IF ~dir.files
    THEN [err |-> Raise("FileNotFoundError", "open files/hashes"), dir |-> dir]
    ELSE LET sel == _select_files(descriptor)
         IN [err |-> sel.err,
             dir |-> [dir EXCEPT !.hasFileHashes = TRUE,
                                 !.fileHashes = sel.files,
                                 !.copied = dir.copied \cup sel.files]]

\* Installer._write_context_data up to the closure check: hashes and index
\* are opened for writing and one record of each is written per selected
\* context
write_graphs(dir, selected, content) ==
    [dir EXCEPT !.hasIndex = TRUE,
                !.index = [k \in DOMAIN selected |->
                              IndexRecord(selected[k], content[selected[k]])],
                !.hashes = [k \in DOMAIN selected |->
                               HashRecord(selected[k], content[selected[k]])],
                !.nt = dir.nt \cup {gen_name(content[selected[k]]) : k \in DOMAIN selected}]

MissingImports(uncovered) ==
    [kind |-> "MissingImports", at |-> "_write_context_data", imports |-> uncovered]

\* Installer._write_context_data: every outcome for the given enumeration
\* order of the graph's contexts and the given order of the dependencies
_write_context_data(fs, dir, descriptor, content, imps, order, dependencies) ==
    IF ~dir.graphs
    THEN {[err |-> Raise("FileNotFoundError", "open graphs/hashes"), dir |-> dir]}
    ELSE LET selected == _select_contexts(descriptor, order)
             included == SeqToSet(selected)
             imported == IF imps.configured
                         THEN imported_contexts(imps.edges, selected, {})
                         ELSE {}
             written == write_graphs(dir, selected, content)
         IN {[err |-> IF o.err # NoErr THEN o.err
                      ELSE IF o.uncovered # {} THEN MissingImports(o.uncovered)
                      ELSE NoErr,
              dir |-> written] :
             o \in _cover_with_dependencies(fs, imported \ included, dependencies)}

\* Installer._write_manifest
_write_manifest(dir) == [dir EXCEPT !.manifest = TRUE]

\* Installer._cleanup_failed_install: rmtree(graphs), then rmtree(files);
\* rmtree of a missing directory raises
RemoveGraphs(dir) ==
    [dir EXCEPT !.graphs = FALSE, !.hasIndex = FALSE, !.index = <<>>,
                !.hashes = <<>>, !.nt = {}]

RemoveFiles(dir) ==
    [dir EXCEPT !.files = FALSE, !.hasFileHashes = FALSE, !.fileHashes = {},
                !.copied = {}]

\* a cleanup that forgets files/
cleanup_graphs_only(dir) ==
    IF ~dir.graphs
    THEN [err |-> Raise("FileNotFoundError", "rmtree graphs"), dir |-> dir]
    ELSE [err |-> NoErr, dir |-> RemoveGraphs(dir)]

\* a cleanup that removes the staging directory altogether
cleanup_staging_directory(dir) ==
    IF ~dir.graphs
    THEN [err |-> Raise("FileNotFoundError", "rmtree graphs"), dir |-> dir]
    ELSE [err |-> NoErr, dir |-> NoDir]

_cleanup_failed_install(dir) ==
    IF ~dir.graphs
    THEN [err |-> Raise("FileNotFoundError", "rmtree graphs"), dir |-> dir]
    ELSE IF ~dir.files
    THEN [err |-> Raise("FileNotFoundError", "rmtree files"), dir |-> RemoveGraphs(dir)]
    ELSE [err |-> NoErr, dir |-> RemoveFiles(RemoveGraphs(dir))]

StagingDirs == {bundle_directory(BundleB, v) : v \in Versions}

staging_directory(descriptor) == bundle_directory(descriptor.id, descriptor.version)

WithDir(fs, bdir, dir) == [fs EXCEPT ![bdir.id][bdir.version] = dir]

\* file_lock.lock_file: the lock of a staging directory can be taken when no
\* installer holds it
LockFree(bdir) == lock[bdir] = "free"

\* no install() has succeeded yet
NoLast == [any |-> FALSE, desc |-> NoDesc, index |-> <<>>, hashes |-> <<>>]

\* Installer.install, lines 720-725: the staging directory is created
Install(i) ==
    /\ i \in callers
    /\ pc[i] \in {"idle", "returned", "raised"}
    /\ calls < MaxInstalls
    /\ \E d \in IF menu = "any" THEN Descriptors ELSE PlainDescriptors :
          /\ desc' = [desc EXCEPT ![i] = d]
          /\ bundles' = WithDir(bundles, staging_directory(d),
                                [DirAt(bundles, staging_directory(d)) EXCEPT !.exists = TRUE])
    /\ calls' = calls + 1
    /\ pc' = [pc EXCEPT ![i] = "lock"]
    /\ err' = [err EXCEPT ![i] = NoErr]
    /\ origErr' = [origErr EXCEPT ![i] = NoErr]
    /\ failed' = [failed EXCEPT ![i] = "none"]
    /\ UNCHANGED <<lock, store, imports, menu, callers, fvars, rvars, xvars, last, yvars>>

\* an install() that does not wait for the lock
AcquireLockUnguarded(i) ==
    /\ pc[i] = "lock"
    /\ lock' = [lock EXCEPT ![staging_directory(desc[i])] = i]
    /\ pc' = [pc EXCEPT ![i] = "setup"]
    /\ UNCHANGED <<bundles, store, imports, menu, callers, calls, desc, err,
                   origErr, failed, fvars, rvars, xvars, last, yvars>>

\* Installer.install, line 727: with lock_file(<staging directory>/.lock)
AcquireLock(i) ==
    /\ pc[i] = "lock"
    /\ LockFree(staging_directory(desc[i]))
    /\ lock' = [lock EXCEPT ![staging_directory(desc[i])] = i]
    /\ pc' = [pc EXCEPT ![i] = "setup"]
    /\ UNCHANGED <<bundles, store, imports, menu, callers, calls, desc, err,
                   origErr, failed, fvars, rvars, xvars, last, yvars>>

\* a step of _install has ended with r: go on to the next step, or to the
\* except clause of install()
StepDone(i, step, next, r) ==
    /\ bundles' = WithDir(bundles, staging_directory(desc[i]), r.dir)
    /\ pc' = [pc EXCEPT ![i] = IF r.err = NoErr THEN next ELSE "cleanup"]
    /\ err' = [err EXCEPT ![i] = r.err]
    /\ origErr' = [origErr EXCEPT ![i] = r.err]
    /\ failed' = [failed EXCEPT ![i] = IF r.err = NoErr THEN "none" ELSE step]
    /\ UNCHANGED <<lock, store, imports, menu, callers, calls, desc, fvars, rvars, xvars, yvars>>

\* _install, line 740
SetUpDirectories(i) ==
    /\ pc[i] = "setup"
    /\ \E fault \in MkdirFaults :
          StepDone(i, "setup", "files",
                   _set_up_directories(DirAt(bundles, staging_directory(desc[i])), fault))
    /\ UNCHANGED last

\* _install, line 741
WriteFileHashes(i) ==
    /\ pc[i] = "files"
    /\ StepDone(i, "files", "contexts",
                _write_file_hashes(DirAt(bundles, staging_directory(desc[i])), desc[i]))
    /\ UNCHANGED last

\* _install, line 742
WriteContextData(i) ==
    /\ pc[i] = "contexts"
    /\ \E order \in Perms(DOMAIN store), dependencies \in Perms(desc[i].dependencies) :
          \E r \in _write_context_data(bundles,
                                       DirAt(bundles, staging_directory(desc[i])),
                                       desc[i], store, imports, order, dependencies) :
             StepDone(i, "contexts", "manifest", r)
    /\ UNCHANGED last

\* _install, line 743; install() then returns the staging directory
WriteManifest(i) ==
    /\ pc[i] = "manifest"
    /\ StepDone(i, "manifest", "release",
                [err |-> NoErr,
                 dir |-> _write_manifest(DirAt(bundles, staging_directory(desc[i])))])
    /\ last' = [any |-> TRUE, desc |-> desc[i],
                index |-> DirAt(bundles, staging_directory(desc[i])).index,
                hashes |-> DirAt(bundles, staging_directory(desc[i])).hashes]

\* install(), lines 731-733: the except clause; an exception raised by the
\* cleanup takes the place of the one being handled
CleanupFailedInstall(i) ==
    /\ pc[i] = "cleanup"
    /\ LET r == _cleanup_failed_install(DirAt(bundles, staging_directory(desc[i])))
       IN /\ bundles' = WithDir(bundles, staging_directory(desc[i]), r.dir)
          /\ err' = [err EXCEPT ![i] = IF r.err = NoErr THEN err[i] ELSE r.err]
    /\ pc' = [pc EXCEPT ![i] = "release"]
    /\ UNCHANGED <<lock, store, imports, menu, callers, calls, desc, origErr, failed, fvars, rvars, xvars, last, yvars>>

\* a with block that would keep the lock when its body raised
ReleaseLockOnSuccess(i) ==
    /\ pc[i] = "release"
    /\ lock' = IF err[i] = NoErr
               THEN [lock EXCEPT ![staging_directory(desc[i])] = "free"]
               ELSE lock
    /\ pc' = [pc EXCEPT ![i] = IF err[i] = NoErr THEN "returned" ELSE "raised"]
    /\ desc' = [desc EXCEPT ![i] = NoDesc]
    /\ err' = [err EXCEPT ![i] = NoErr]
    /\ origErr' = [origErr EXCEPT ![i] = NoErr]
    /\ failed' = [failed EXCEPT ![i] = "none"]
    /\ UNCHANGED <<bundles, store, imports, menu, callers, calls, fvars, rvars, xvars, last, yvars>>

\* install(), line 727: leaving the with block releases the lock, and
\* install() returns or raises: the call's frame is gone
ReleaseLock(i) ==
    /\ pc[i] = "release"
    /\ lock' = [lock EXCEPT ![staging_directory(desc[i])] = "free"]
    /\ pc' = [pc EXCEPT ![i] = IF err[i] = NoErr THEN "returned" ELSE "raised"]
    /\ desc' = [desc EXCEPT ![i] = NoDesc]
    /\ err' = [err EXCEPT ![i] = NoErr]
    /\ origErr' = [origErr EXCEPT ![i] = NoErr]
    /\ failed' = [failed EXCEPT ![i] = "none"]
    /\ UNCHANGED <<bundles, store, imports, menu, callers, calls, fvars, rvars, xvars, last, yvars>>

----------------------------------------------------------------------------
\* Loaders (bundle.py 475-648).  The only registered loader class is
\* HTTPBundleLoader, whose index is a JSON document: index[bundle name] is
\* null, a mapping from version strings to URLs, or something else.

Fetchers == {"f1", "f2"}

\* a key of a JSON object is a string: the decimal numeral of n, or a string
\* that is no numeral
Numeral(n) == [digits |-> TRUE, n |-> n]
NotANumeral == [digits |-> FALSE, n |-> 0]
IndexKeys == {Numeral(v) : v \in Versions} \cup {NotANumeral}

\* str(bundle_version)
str(n) == Numeral(n)

\* int(k): the number, or ValueError
int(k) == IF k.digits THEN [ok |-> TRUE, val |-> k.n] ELSE [ok |-> FALSE, val |-> 0]

\* a string key compared with an int: Python finds them unequal
StrEqualsInt(k, n) == FALSE

\* what a download URL leads to: an archive that unpacks, or a failure
UrlStates == {"ok", "bad"}

\* index.get(bundle_name) for the bundle that is fetched
BundleInfos ==
    {[kind |-> "none", d |-> <<>>], [kind |-> "nondict", d |-> <<>>]}
        \cup {[kind |-> "dict", d |-> d] :
              d \in {d \in UNION {[K -> UrlStates] : K \in SUBSET IndexKeys} :
                        NotANumeral \in DOMAIN d => d[NotANumeral] = "bad"}}

\* URLConfig(url) with what is located at the URL; a config HTTPBundleLoader
\* cannot load from; an index that cannot be retrieved
AccessorConfigs ==
    {[http |-> FALSE, reachable |-> FALSE, binfo |-> [kind |-> "none", d |-> <<>>]],
     [http |-> TRUE, reachable |-> FALSE, binfo |-> [kind |-> "none", d |-> <<>>]]}
        \cup {[http |-> TRUE, reachable |-> TRUE, binfo |-> b] : b \in BundleInfos}

\* HTTPBundleLoader.can_load_from
can_load_from(ac) == ac.http

\* the truth value of binfo
Truthy(binfo) == binfo.kind = "nondict" \/ (binfo.kind = "dict" /\ DOMAIN binfo.d # {})

\* HTTPBundleLoader.can_load: "raise" when the index cannot be retrieved
can_load(ac, bundle_version) ==
    IF ~ac.reachable THEN "raise"
    ELSE IF ~Truthy(ac.binfo) THEN "false"
    ELSE IF bundle_version = NoVersion THEN "true"
    ELSE IF ac.binfo.kind # "dict" THEN "false"
    ELSE IF \E k \in DOMAIN ac.binfo.d : StrEqualsInt(k, bundle_version) THEN "true"
    ELSE "false"

\* HTTPBundleLoader.bundle_versions
bundle_versions(ac) ==
    IF ~ac.reachable THEN [err |-> Raise("RequestException", "bundle_versions"), versions |-> {}]
    ELSE IF ~Truthy(ac.binfo) THEN [err |-> NoErr, versions |-> {}]
    ELSE IF ac.binfo.kind # "dict"
    THEN [err |-> Raise("AttributeError", "bundle_versions"), versions |-> {}]
    ELSE [err |-> NoErr,
          versions |-> {int(k).val : k \in {k \in DOMAIN ac.binfo.d : int(k).ok}}]

\* HTTPBundleLoader.load with an integer version: the error it raises, if any
load(ac, bundle_version) ==
    IF ~ac.reachable THEN Raise("RequestException", "load")
    ELSE IF ~Truthy(ac.binfo) THEN Raise("LoadFailed", "load")
    ELSE IF ac.binfo.kind # "dict" THEN Raise("LoadFailed", "load")
    ELSE IF str(bundle_version) \notin DOMAIN ac.binfo.d THEN Raise("LoadFailed", "load")
    ELSE IF ac.binfo.d[str(bundle_version)] # "ok" THEN Raise("TarError", "load")
    ELSE NoErr

\* HTTPBundleLoader._unpack: the archive of a bundle, extracted
Unpacked == InstalledDir(<<CtxA>>)

----------------------------------------------------------------------------
\* Fetcher (bundle.py 406-451).

\* a loader is named by the place of its accessor config: remote, config
NoLoader == <<0, 0>>

Max(S) == CHOOSE x \in S : \A y \in S : y <= x

Before(q1, q2) == q1[1] < q2[1] \/ (q1[1] = q2[1] /\ q1[2] < q2[2])

\* Remote.generate_loaders over the remotes: one loader per accessor config
Places == UNION {{<<r, a>> : a \in DOMAIN remotes[r]} : r \in DOMAIN remotes}

\* the places after pos, in the order generate_loaders visits them
PlacesAfter(pos) == {q \in Places : Before(pos, q)}

First(places) == CHOOSE q \in places : \A o \in places : o = q \/ Before(q, o)

ConfigAt(q) == remotes[q[1]][q[2]]

\* a generator that yields every loader, capable or not
all_loaders(pos, bundle_version) ==
    LET able == {q \in PlacesAfter(pos) : can_load_from(ConfigAt(q))}
    IN IF able = {} THEN [kind |-> "end", pos |-> pos]
       ELSE [kind |-> "loader", pos |-> First(able)]

\* Fetcher._get_bundle_loaders resumed after pos: the next loader whose
\* can_load accepts the bundle, or the exception can_load raises, or the end
RECURSIVE _get_bundle_loaders(_, _)
_get_bundle_loaders(pos, bundle_version) ==
    IF PlacesAfter(pos) = {} THEN [kind |-> "end", pos |-> pos]
    ELSE LET q == First(PlacesAfter(pos))
         IN IF ~can_load_from(ConfigAt(q)) THEN _get_bundle_loaders(q, bundle_version)
            ELSE IF can_load(ConfigAt(q), bundle_version) = "raise"
            THEN [kind |-> "raise", pos |-> q]
            ELSE IF can_load(ConfigAt(q), bundle_version) = "true"
            THEN [kind |-> "loader", pos |-> q]
            ELSE _get_bundle_loaders(q, bundle_version)

\* NoBundleLoader(bundle_name, bundle_version): the message is built with
\* ' at version ' + bundle_version
NoBundleLoader(bundle_version) ==
    IF bundle_version = NoVersion THEN Raise("NoBundleLoader", "fetch")
    ELSE Raise("TypeError", "NoBundleLoader.__init__")

\* Fetcher.fetch is called
Fetch(f) ==
    /\ fpc[f] \in {"idle", "returned", "raised"}
    /\ \E v \in Versions \cup {NoVersion} :
          /\ wanted' = [wanted EXCEPT ![f] = v]
          /\ bversion' = [bversion EXCEPT ![f] = v]
    /\ fpc' = [fpc EXCEPT ![f] = "loaders"]
    /\ position' = [position EXCEPT ![f] = NoLoader]
    /\ log' = [log EXCEPT ![f] = <<>>]
    /\ ferr' = [ferr EXCEPT ![f] = NoErr]
    /\ fdir' = [fdir EXCEPT ![f] = bundle_directory(BundleB, 1)]
    /\ UNCHANGED <<bundles, ivars, rvars, xvars, last, yvars, remotes>>

\* fetch, line 430: the for statement asks the generator for the next loader;
\* at its end the else clause raises
NextLoader(f) ==
    /\ fpc[f] = "loaders"
    /\ LET g == _get_bundle_loaders(position[f], wanted[f])
       IN /\ position' = [position EXCEPT ![f] = g.pos]
          /\ fpc' = [fpc EXCEPT ![f] = IF g.kind = "loader" THEN "try" ELSE "raised"]
          /\ ferr' = [ferr EXCEPT ![f] =
                         IF g.kind = "raise" THEN Raise("RequestException", "can_load")
                         ELSE IF g.kind = "end" THEN NoBundleLoader(bversion[f])
                         ELSE NoErr]
    /\ UNCHANGED <<bundles, ivars, rvars, xvars, last, yvars, remotes, wanted, bversion, log, fdir>>

\* the body of the loop for one loader, lines 431-441: the version to load,
\* the error of the attempt if any
Attempt(ac, bundle_version) ==
    LET vs == bundle_versions(ac)
        v == IF bundle_version # NoVersion THEN bundle_version
             ELSE IF vs.err # NoErr \/ vs.versions = {} THEN NoVersion
             ELSE Max(vs.versions)
    IN [version |-> v,
        err |-> IF bundle_version = NoVersion /\ vs.err # NoErr THEN vs.err
                ELSE IF v = NoVersion THEN Raise("BundleNotFound", "bundle_versions")
                ELSE load(ac, v)]

\* a fetch whose loop does not catch the exception of an attempt
TryLoaderNoCatch(f) ==
    /\ fpc[f] = "try"
    /\ LET a == Attempt(ConfigAt(position[f]), bversion[f])
       IN /\ bversion' = [bversion EXCEPT ![f] = a.version]
          /\ log' = [log EXCEPT ![f] = Append(log[f],
                        [loader |-> position[f], version |-> a.version, err |-> a.err])]
          /\ fpc' = [fpc EXCEPT ![f] = IF a.err = NoErr THEN "returned" ELSE "raised"]
          /\ ferr' = [ferr EXCEPT ![f] = a.err]
          /\ fdir' = [fdir EXCEPT ![f] =
                         IF a.err = NoErr THEN bundle_directory(BundleB, a.version)
                         ELSE fdir[f]]
          /\ bundles' = IF a.err = NoErr
                        THEN WithDir(bundles, bundle_directory(BundleB, a.version), Unpacked)
                        ELSE bundles
    /\ UNCHANGED <<ivars, rvars, xvars, last, yvars, remotes, wanted, position>>

\* fetch, lines 431-443: the loader is tried; fetch returns the directory it
\* loaded into, or logs the failure and goes on with the next loader
TryLoader(f) ==
    /\ fpc[f] = "try"
    /\ LET a == Attempt(ConfigAt(position[f]), bversion[f])
       IN /\ bversion' = [bversion EXCEPT ![f] = a.version]
          /\ log' = [log EXCEPT ![f] = Append(log[f],
                        [loader |-> position[f], version |-> a.version, err |-> a.err])]
          /\ fpc' = [fpc EXCEPT ![f] = IF a.err = NoErr THEN "returned" ELSE "loaders"]
          /\ fdir' = [fdir EXCEPT ![f] =
                         IF a.err = NoErr THEN bundle_directory(BundleB, a.version)
                         ELSE fdir[f]]
          /\ bundles' = IF a.err = NoErr
                        THEN WithDir(bundles, bundle_directory(BundleB, a.version), Unpacked)
                        ELSE bundles
    /\ UNCHANGED <<ivars, rvars, xvars, last, yvars, remotes, wanted, position, ferr>>

\* HTTPBundleLoader._unpack seen step by step: extractall has created the
\* target directory and writes the members of the archive into it
Extracting(dir) == IF dir.exists THEN dir ELSE [NoDir EXCEPT !.exists = TRUE]

\* a load that would wait while another fetch extracts into the same directory
BeginUnpackExclusive(f) ==
    /\ fpc[f] = "try"
    /\ LET a == Attempt(ConfigAt(position[f]), bversion[f])
           bdir == bundle_directory(BundleB, a.version)
       IN /\ a.err = NoErr
          /\ \A g \in Fetchers \ {f} : ~(fpc[g] = "unpacking" /\ fdir[g] = bdir)
          /\ bversion' = [bversion EXCEPT ![f] = a.version]
          /\ fdir' = [fdir EXCEPT ![f] = bdir]
          /\ bundles' = WithDir(bundles, bdir, Extracting(DirAt(bundles, bdir)))
    /\ fpc' = [fpc EXCEPT ![f] = "unpacking"]
    /\ UNCHANGED <<ivars, rvars, xvars, last, yvars, remotes, wanted, position, log, ferr>>

\* fetch, lines 432-440, and load up to _unpack: the version and the target
\* directory are settled, the archive is downloaded and its extraction begins
BeginUnpack(f) ==
    /\ fpc[f] = "try"
    /\ LET a == Attempt(ConfigAt(position[f]), bversion[f])
           bdir == bundle_directory(BundleB, a.version)
       IN /\ a.err = NoErr
          /\ bversion' = [bversion EXCEPT ![f] = a.version]
          /\ fdir' = [fdir EXCEPT ![f] = bdir]
          /\ bundles' = WithDir(bundles, bdir, Extracting(DirAt(bundles, bdir)))
    /\ fpc' = [fpc EXCEPT ![f] = "unpacking"]
    /\ UNCHANGED <<ivars, rvars, xvars, last, yvars, remotes, wanted, position, log, ferr>>

\* _unpack has written the last member; load returns, and so does fetch
EndUnpack(f) ==
    /\ fpc[f] = "unpacking"
    /\ bundles' = WithDir(bundles, fdir[f], Unpacked)
    /\ log' = [log EXCEPT ![f] = Append(log[f],
                  [loader |-> position[f], version |-> bversion[f], err |-> NoErr])]
    /\ fpc' = [fpc EXCEPT ![f] = "returned"]
    /\ UNCHANGED <<ivars, rvars, xvars, last, yvars, remotes, wanted, bversion, position, ferr, fdir>>

InitFetchers ==
    /\ fpc = [f \in Fetchers |-> "idle"]
    /\ wanted = [f \in Fetchers |-> NoVersion]
    /\ bversion = [f \in Fetchers |-> NoVersion]
    /\ position = [f \in Fetchers |-> NoLoader]
    /\ log = [f \in Fetchers |-> <<>>]
    /\ ferr = [f \in Fetchers |-> NoErr]
    /\ fdir = [f \in Fetchers |-> bundle_directory(BundleB, 1)]

----------------------------------------------------------------------------
\* Bundle.resolve (bundle.py 229-246) on one handle for the bundle; its
\* Fetcher is f1.

\* Bundle.remotes: the remotes the handle was given, if any
HandleRemotes == IF handle.given THEN remotes ELSE <<>>

\* a resolve() that gives up at once when the version is pinned
ResolvePinnedRaises ==
    /\ rpc \in {"idle", "returned", "raised"}
    /\ LET r == _get_bundle_directory(bundles, BundleB, handle.version)
           rem == resolve_remotes(HandleRemotes, owmDir, remotes)
       IN IF r.err = NoErr
          THEN /\ rpc' = "returned"
               /\ rdir' = r.dir
               /\ rerr' = NoErr
               /\ UNCHANGED fvars
          ELSE IF handle.version # NoVersion \/ rem.err # NoErr
          THEN /\ rpc' = "raised"
               /\ rerr' = IF handle.version # NoVersion THEN r.err ELSE rem.err
               /\ UNCHANGED <<rdir, fvars>>
          ELSE /\ rpc' = "fetching"
               /\ rerr' = NoErr
               /\ fpc' = [fpc EXCEPT !["f1"] = "loaders"]
               /\ wanted' = [wanted EXCEPT !["f1"] = handle.version]
               /\ bversion' = [bversion EXCEPT !["f1"] = handle.version]
               /\ position' = [position EXCEPT !["f1"] = NoLoader]
               /\ log' = [log EXCEPT !["f1"] = <<>>]
               /\ ferr' = [ferr EXCEPT !["f1"] = NoErr]
               /\ UNCHANGED <<rdir, remotes, fdir>>
    /\ UNCHANGED <<bundles, ivars, xvars, last, yvars, handle, owmDir>>

\* resolve(), lines 230-242: the local lookup; when it fails, the remotes
\* are looked for and a Fetcher is called with them
Resolve ==
    /\ rpc \in {"idle", "returned", "raised"}
    /\ LET r == _get_bundle_directory(bundles, BundleB, handle.version)
           rem == resolve_remotes(HandleRemotes, owmDir, remotes)
       IN IF r.err = NoErr
          THEN /\ rpc' = "returned"
               /\ rdir' = r.dir
               /\ rerr' = NoErr
               /\ UNCHANGED fvars
          ELSE IF rem.err # NoErr
          THEN /\ rpc' = "raised"
               /\ rerr' = rem.err
               /\ UNCHANGED <<rdir, fvars>>
          ELSE /\ rpc' = "fetching"
               /\ rerr' = NoErr
               /\ fpc' = [fpc EXCEPT !["f1"] = "loaders"]
               /\ wanted' = [wanted EXCEPT !["f1"] = handle.version]
               /\ bversion' = [bversion EXCEPT !["f1"] = handle.version]
               /\ position' = [position EXCEPT !["f1"] = NoLoader]
               /\ log' = [log EXCEPT !["f1"] = <<>>]
               /\ ferr' = [ferr EXCEPT !["f1"] = NoErr]
               /\ UNCHANGED <<rdir, remotes, fdir>>
    /\ UNCHANGED <<bundles, ivars, xvars, last, yvars, handle, owmDir>>

\* resolve(), lines 243-246: the Fetcher has returned or raised
ResolveFetched ==
    /\ rpc = "fetching"
    /\ fpc["f1"] \in {"returned", "raised"}
    /\ rpc' = fpc["f1"]
    /\ rdir' = IF fpc["f1"] = "returned" THEN fdir["f1"] ELSE rdir
    /\ rerr' = ferr["f1"]
    /\ UNCHANGED <<bundles, ivars, fvars, xvars, last, yvars, handle, owmDir>>

InitHandle ==
    /\ rpc = "idle"
    /\ rerr = NoErr
    /\ rdir = bundle_directory(BundleB, 1)

NoHandle ==
    /\ handle = [version |-> NoVersion, given |-> FALSE]
    /\ owmDir = FALSE
    /\ InitHandle

----------------------------------------------------------------------------
\* Bundle._get_bundle_directory (bundle.py 248-284) over the entries of the
\* bundle's id directory, whatever their names.  A name is a string: a
\* sequence of characters.

Digits == <<"0", "1", "2", "3", "4", "5", "6", "7", "8", "9">>

IsDigit(ch) == \E k \in DOMAIN Digits : Digits[k] = ch

DigitValue(ch) == (CHOOSE k \in DOMAIN Digits : Digits[k] = ch) - 1

\* int(ent.name): the number a string of decimal digits denotes, leading
\* zeros allowed, or ValueError
RECURSIVE parse_digits(_, _)
parse_digits(name, acc) ==
    IF name = <<>> THEN acc
    ELSE parse_digits(Tail(name), 10 * acc + DigitValue(Head(name)))

parse_int(name) ==
    IF name # <<>> /\ \A k \in DOMAIN name : IsDigit(name[k])
    THEN [ok |-> TRUE, val |-> parse_digits(name, 0)]
    ELSE [ok |-> FALSE, val |-> 0]

\* str(version) for a version >= 0: the decimal numeral without leading zeros
RECURSIVE format_int(_)
format_int(n) ==
    IF n < 10 THEN <<Digits[n + 1]>>
    ELSE Append(format_int(n \div 10), Digits[(n % 10) + 1])

\* names an entry of the id directory may have
EntryNames ==
    {<<"1">>, <<"2">>, <<"1", "0">>, <<"0", "2">>, <<"0">>, <<"x">>}

\* the id directory: absent, or present with entries, each a directory or a file
Listings ==
    {[present |-> FALSE, ents |-> {}]}
        \cup {[present |-> TRUE, ents |-> {[name |-> n, is_dir |-> d[n]] : n \in DOMAIN d}] :
              d \in UNION {[N -> BOOLEAN] : N \in SUBSET EntryNames}}

NoLookup == [done |-> FALSE, err |-> NoErr, name |-> <<>>]

\* the for loop of lines 264-274: the largest number that the name of a
\* directory entry parses to, or 0
latest_version(ents) ==
    LET vns == {parse_int(e.name).val : e \in {e \in ents : e.is_dir /\ parse_int(e.name).ok}}
    IN IF vns = {} THEN 0 ELSE CHOOSE v \in vns : \A w \in vns : w <= v

\* _get_bundle_directory with no pinned version (self.version is None)
scan_bundle_directory(l) ==
    IF ~l.present THEN [done |-> TRUE, err |-> BundleNotFound, name |-> <<>>]
    ELSE LET version == latest_version(l.ents)
             res == format_int(version)
         IN IF version = 0 THEN [done |-> TRUE, err |-> BundleNotFound, name |-> <<>>]
            ELSE IF ~\E e \in l.ents : e.name = res
            THEN [done |-> TRUE, err |-> BundleNotFound, name |-> <<>>]
            ELSE [done |-> TRUE, err |-> NoErr, name |-> res]

\* a handle without a pinned version looks the bundle up locally
Lookup ==
    /\ ~located.done
    /\ located' = scan_bundle_directory(listing)
    /\ UNCHANGED <<bundles, ivars, fvars, rvars, listing, scope, probe, pair, last, yvars>>

\* Installer.install, lines 720-723: makedirs of a staging directory puts a
\* version directory into the id directory
MakeStagingDirectory ==
    /\ located.done
    /\ \E n \in EntryNames :
          /\ ~\E e \in listing.ents : e.name = n
          /\ listing' = [present |-> TRUE,
                         ents |-> listing.ents \cup {[name |-> n, is_dir |-> TRUE]}]
    /\ located' = NoLookup
    /\ UNCHANGED <<bundles, ivars, fvars, rvars, scope, probe, pair, last, yvars>>

NoListing ==
    /\ listing = [present |-> FALSE, ents |-> {}]
    /\ located = NoLookup

----------------------------------------------------------------------------
\* Bundle.__enter__ and __exit__ (bundle.py 374-379) with _make_config
\* (286-300) and _load_all_graphs (324-368): a handle without remotes used
\* in a with statement.

\* what can go wrong after conf.init(): the database file is not there, a
\* graph file does not parse
ScopeFaults == {"none", "nodb", "parse"}

OutOfScope == [pc |-> "out", open |-> FALSE, err |-> NoErr]

\* _load_all_graphs: the index is read and every graph file it names is
\* opened and parsed
_load_all_graphs(dir, fault) ==
    IF ~(dir.graphs /\ dir.hasIndex) THEN Raise("Exception", "_load_all_graphs")
    ELSE IF \E k \in DOMAIN dir.index : dir.index[k].fname \notin dir.nt
    THEN Raise("FileNotFoundError", "_load_all_graphs")
    ELSE IF fault = "parse" /\ dir.index # <<>> THEN Raise("ParserError", "_load_all_graphs")
    ELSE NoErr

\* _make_config: the manifest is read, conf.init() opens the store, the
\* database file is looked for, the graphs are loaded
_make_config(dir, fault) ==
    IF ~dir.manifest
    THEN [open |-> FALSE, err |-> Raise("FileNotFoundError", "open manifest")]
    ELSE IF fault = "nodb"
    THEN [open |-> TRUE, err |-> Raise("Exception", "_make_config")]
    ELSE [open |-> TRUE, err |-> _load_all_graphs(dir, fault)]

\* with bundle: __enter__ resolves the bundle and makes the config; when it
\* raises, the with statement does not call __exit__
Enter ==
    /\ scope.pc = "out"
    /\ \E fault \in ScopeFaults :
          LET r == resolve_no_remotes(bundles, BundleB, handle.version)
              c == _make_config(DirAt(bundles, r.dir), fault)
          IN scope' = IF r.err # NoErr
                      THEN [pc |-> "abandoned", open |-> FALSE, err |-> r.err]
                      ELSE IF c.err # NoErr
                      THEN [pc |-> "abandoned", open |-> c.open, err |-> c.err]
                      ELSE [pc |-> "in", open |-> TRUE, err |-> NoErr]
    /\ UNCHANGED <<bundles, ivars, fvars, rvars, listing, located, probe, pair, last, yvars>>

\* the body of the with statement ends, normally or with an exception:
\* __exit__ calls conf.destroy()
Exit ==
    /\ scope.pc = "in"
    /\ \E raised \in BOOLEAN :
          scope' = [pc |-> "left", open |-> FALSE,
                    err |-> IF raised THEN Raise("Exception", "with body") ELSE NoErr]
    /\ UNCHANGED <<bundles, ivars, fvars, rvars, listing, located, probe, pair, last, yvars>>

----------------------------------------------------------------------------
\* The pattern matchers applied to an identifier (bundle.py 938-957).

Strings(alphabet, n) == UNION {[1..k -> alphabet] : k \in 0..n}

\* glob patterns of one or two characters, and some regular expressions
MatchPatterns ==
    {[kind |-> "glob", text |-> t] : t \in Strings({"a", "b", "*", "?"}, 2) \ {<<>>}}
        \cup {[kind |-> "rgx", text |-> t] :
              t \in {<<"a">>, <<"a", "b">>, <<"a", "*">>, <<".", "*">>, <<"a", "?">>,
                     <<".", "*", "b">>}}

\* identifiers of up to three characters
Uris == Strings({"a", "b"}, 3)

NoProbe == [pat |-> GlobAStar, uri |-> <<>>, said |-> "none"]

\* pattern(uri): RegexURIPattern.__call__
Match ==
    /\ probe.said = "none"
    /\ probe' = [probe EXCEPT !.said = IF PatternMatches(probe.pat, probe.uri)
                                       THEN "true" ELSE "false"]
    /\ UNCHANGED <<bundles, ivars, fvars, rvars, listing, located, scope, pair, last, yvars>>

\* the pattern is asked about another identifier
NextUri ==
    /\ probe.said # "none"
    /\ \E u \in Uris : probe' = [probe EXCEPT !.uri = u, !.said = "none"]
    /\ UNCHANGED <<bundles, ivars, fvars, rvars, listing, located, scope, pair, last, yvars>>

----------------------------------------------------------------------------
\* Remote.__eq__ and Remote.__hash__ (bundle.py 93-98) with URLConfig's
\* (144-148).

RemoteNames == {"r", "s"}

\* URLConfig(url)
URLConfigs == {[url |-> u] : u \in {"u", "v"}}

\* Remote(name, accessor_configs): accessor_configs is kept as a list
Remotes ==
    [name : RemoteNames,
     accessor_configs : UNION {[1..k -> URLConfigs] : k \in 0..2}]

\* URLConfig.__eq__
URLConfig_eq(a, b) == a.url = b.url

\* list.__eq__: same length, equal item by item
list_eq(l1, l2) ==
    Len(l1) = Len(l2) /\ \A k \in DOMAIN l1 : URLConfig_eq(l1[k], l2[k])

\* Remote.__eq__
Remote_eq(a, b) == a.name = b.name /\ list_eq(a.accessor_configs, b.accessor_configs)

\* hash(x) of one item of a tuple: a str has a hash, a list has none
hash_item(x) ==
    IF x.type = "list" THEN [err |-> Raise("TypeError", "hash"), val |-> <<>>]
    ELSE [err |-> NoErr, val |-> <<x.v>>]

\* hash of a tuple of two items: the hashes of its items together
hash_tuple(x, y) ==
    IF hash_item(x).err # NoErr THEN hash_item(x)
    ELSE IF hash_item(y).err # NoErr THEN hash_item(y)
    ELSE [err |-> NoErr, val |-> hash_item(x).val \o hash_item(y).val]

\* Remote.__hash__: hash((self.name, self.accessor_configs))
Remote_hash(r) ==
    hash_tuple([type |-> "str", v |-> r.name], [type |-> "list", v |-> r.accessor_configs])

NoHash == [err |-> NoErr, val |-> <<>>]

NoPair ==
    [a |-> [name |-> "r", accessor_configs |-> <<>>],
     b |-> [name |-> "r", accessor_configs |-> <<>>],
     eq |-> "none", hashed |-> FALSE, ha |-> NoHash, hb |-> NoHash]

\* a == b
Compare ==
    /\ pair.eq = "none"
    /\ pair' = [pair EXCEPT !.eq = IF Remote_eq(pair.a, pair.b) THEN "true" ELSE "false"]
    /\ UNCHANGED <<bundles, ivars, fvars, rvars, listing, located, scope, probe, last, yvars>>

\* hash(a) and hash(b), as putting both into a set does
Hash ==
    /\ ~pair.hashed
    /\ pair' = [pair EXCEPT !.hashed = TRUE, !.ha = Remote_hash(pair.a),
                            !.hb = Remote_hash(pair.b)]
    /\ UNCHANGED <<bundles, ivars, fvars, rvars, listing, located, scope, probe, last, yvars>>

\* where the variables of the sections above rest while another part of the
\* program is looked at
Elsewhere ==
    /\ scope = OutOfScope
    /\ probe = NoProbe
    /\ pair = NoPair
    /\ last = NoLast

----------------------------------------------------------------------------
\* Bundle.contexts (bundle.py 302-322) read again and again on one handle
\* that was given no remotes.

\* _contexts is None, nothing was read yet
NoReader ==
    [cached |-> FALSE, val |-> {}, asked |-> 0, resolves |-> 0,
     got |-> [done |-> FALSE, err |-> NoErr, val |-> {}]]

\* a read of the property without the test of self._contexts
ReadContextsUncached ==
    /\ reader.asked < MaxReads
    /\ LET c == contexts(bundles, BundleB, handle.version)
       IN reader' = [cached |-> reader.cached \/ c.err = NoErr,
                     val |-> IF c.err = NoErr THEN c.contexts ELSE reader.val,
                     asked |-> reader.asked + 1,
                     resolves |-> reader.resolves + 1,
                     got |-> [done |-> TRUE, err |-> c.err, val |-> c.contexts]]
    /\ UNCHANGED <<bundles, ivars, fvars, rvars, xvars, last, loader>>

\* bundle.contexts: the cached set if there is one; otherwise resolve(), read
\* graphs/index and keep the set in _contexts
ReadContexts ==
    /\ reader.asked < MaxReads
    /\ LET c == contexts(bundles, BundleB, handle.version)
       IN reader' = IF reader.cached
                    THEN [reader EXCEPT !.asked = reader.asked + 1,
                                        !.got = [done |-> TRUE, err |-> NoErr,
                                                 val |-> reader.val]]
                    ELSE [cached |-> c.err = NoErr,
                          val |-> c.contexts,
                          asked |-> reader.asked + 1,
                          resolves |-> reader.resolves + 1,
                          got |-> [done |-> TRUE, err |-> c.err, val |-> c.contexts]]
    /\ UNCHANGED <<bundles, ivars, fvars, rvars, xvars, last, loader>>

----------------------------------------------------------------------------
\* One HTTPBundleLoader and its index (bundle.py 564-611): can_load,
\* bundle_versions and load each begin with _setup_index.

\* what the index URL serves: nothing (the request fails), a body that is no
\* JSON, the JSON document null, a JSON document that is no object, an object
IndexDocuments == {"unreachable", "notjson", "null", "list", "object"}

LoaderCalls == {"can_load", "bundle_versions", "load"}

\* HTTPBundleLoader.__init__: self._index = None
NewLoader(doc) == [doc |-> doc, index |-> "None", gets |-> 0, calls |-> <<>>]

\* _setup_index: when self._index is None the index URL is requested and the
\* response is parsed into self._index; gets counts the responses received
_setup_index(l) ==
    IF l.index # "None" THEN l
    ELSE IF l.doc = "unreachable" THEN l
    ELSE IF l.doc = "notjson" THEN [l EXCEPT !.gets = l.gets + 1]
    ELSE [l EXCEPT !.gets = l.gets + 1,
                   !.index = IF l.doc = "null" THEN "None" ELSE l.doc]

\* the loader after a call of one of its three methods
called(l, name) == [_setup_index(l) EXCEPT !.calls = Append(l.calls, name)]

\* can_load(bundle_name, bundle_version)
CanLoad ==
    /\ Len(loader.calls) < MaxCalls
    /\ loader' = called(loader, "can_load")
    /\ UNCHANGED <<bundles, ivars, fvars, rvars, xvars, last, reader>>

\* bundle_versions(bundle_name)
BundleVersions ==
    /\ Len(loader.calls) < MaxCalls
    /\ loader' = called(loader, "bundle_versions")
    /\ UNCHANGED <<bundles, ivars, fvars, rvars, xvars, last, reader>>

\* load(bundle_name, bundle_version)
Load ==
    /\ Len(loader.calls) < MaxCalls
    /\ loader' = called(loader, "load")
    /\ UNCHANGED <<bundles, ivars, fvars, rvars, xvars, last, reader>>

\* no property read and no loader call yet
Unused ==
    /\ reader = NoReader
    /\ loader = NewLoader("object")

----------------------------------------------------------------------------
\* The installer's surroundings: the source graph, the imports context and
\* the dependency bundles installed beforehand.

SourceGraph == (CtxA :> "t1") @@ (CtxAB :> "t2")

ImportEdges == {<<CtxA, CtxX>>, <<CtxX, CtxY>>}

ImportsContexts ==
    {[configured |-> FALSE, edges |-> {}]}
        \cup {[configured |-> TRUE, edges |-> e] : e \in SUBSET ImportEdges}

OnlyVersion1(dir) == [v \in Versions |-> IF v = 1 THEN dir ELSE NoDir]

BundlesDirectories ==
    {[b \in BundleIds |->
         IF b = "D1" THEN OnlyVersion1(d1)
         ELSE IF b = "D2" THEN OnlyVersion1(d2)
         ELSE OnlyVersion1(NoDir)] :
     d1 \in {NoDir, InstalledDir(<<CtxX>>), InstalledDir(<<CtxX, CtxZ>>),
             InstalledDir(<<CtxX, CtxY>>)},
     d2 \in {NoDir, InstalledDir(<<CtxY>>)}}

InitInstallers ==
    /\ lock = [d \in StagingDirs |-> "free"]
    /\ calls = 0
    /\ pc = [i \in Installers |-> "idle"]
    /\ desc = [i \in Installers |-> NoDesc]
    /\ err = [i \in Installers |-> NoErr]
    /\ origErr = [i \in Installers |-> NoErr]
    /\ failed = [i \in Installers |-> "none"]

\* one installer, any descriptor, any surroundings
InitInstall ==
    /\ bundles \in BundlesDirectories
    /\ store = SourceGraph
    /\ imports \in ImportsContexts
    /\ menu = "any"
    /\ callers = {"i1"}
    /\ InitInstallers
    /\ remotes = <<>>
    /\ InitFetchers
    /\ NoHandle
    /\ NoListing
    /\ Elsewhere
    /\ Unused

NextInstall ==
    \E i \in Installers :
        \/ Install(i)
        \/ AcquireLock(i)
        \/ SetUpDirectories(i)
        \/ WriteFileHashes(i)
        \/ WriteContextData(i)
        \/ WriteManifest(i)
        \/ CleanupFailedInstall(i)
        \/ ReleaseLock(i)

SpecInstall == InitInstall /\ [][NextInstall]_vars

\* two installers of the same bundle and version
InitLock ==
    /\ bundles = [b \in BundleIds |->
                     IF b = "D1" THEN OnlyVersion1(InstalledDir(<<CtxX>>))
                     ELSE OnlyVersion1(NoDir)]
    /\ store = SourceGraph
    /\ imports = [configured |-> TRUE, edges |-> ImportEdges]
    /\ menu = "plain"
    /\ callers = Installers
    /\ InitInstallers
    /\ remotes = <<>>
    /\ InitFetchers
    /\ NoHandle
    /\ NoListing
    /\ Elsewhere
    /\ Unused

SpecLock == InitLock /\ [][NextInstall]_vars

\* a call of install() that has started runs on: every step but the call
\* itself is taken when it stays possible
InstallProgress ==
    \A i \in Installers :
        /\ WF_vars(AcquireLock(i))
        /\ WF_vars(SetUpDirectories(i))
        /\ WF_vars(WriteFileHashes(i))
        /\ WF_vars(WriteContextData(i))
        /\ WF_vars(WriteManifest(i))
        /\ WF_vars(CleanupFailedInstall(i))
        /\ WF_vars(ReleaseLock(i))

SpecLockFair == SpecLock /\ InstallProgress

\* two accessor configs, in one remote or in two
RemoteLists ==
    {<<<<a1>>, <<a2>>>> : a1, a2 \in AccessorConfigs}
        \cup {<<<<a1, a2>>>> : a1, a2 \in AccessorConfigs}

NoBundles == [b \in BundleIds |-> [v \in Versions |-> NoDir]]

InitFetch ==
    /\ bundles = NoBundles
    /\ store = SourceGraph
    /\ imports = [configured |-> FALSE, edges |-> {}]
    /\ menu = "plain"
    /\ callers = {}
    /\ InitInstallers
    /\ remotes \in RemoteLists
    /\ InitFetchers
    /\ NoHandle
    /\ NoListing
    /\ Elsewhere
    /\ Unused

NextFetch == Fetch("f1") \/ NextLoader("f1") \/ TryLoader("f1")

SpecFetch == InitFetch /\ [][NextFetch]_vars

\* two Fetchers with the same remote of one accessor config and the same
\* bundles directory, their loads seen step by step
InitRace ==
    /\ bundles = NoBundles
    /\ store = SourceGraph
    /\ imports = [configured |-> FALSE, edges |-> {}]
    /\ menu = "plain"
    /\ callers = {}
    /\ InitInstallers
    /\ remotes \in {<<<<a>>>> : a \in AccessorConfigs}
    /\ InitFetchers
    /\ NoHandle
    /\ NoListing
    /\ Elsewhere
    /\ Unused

NextRace ==
    \E f \in Fetchers :
        \/ Fetch(f)
        \/ NextLoader(f)
        \/ TryLoader(f)
        \/ BeginUnpack(f)
        \/ EndUnpack(f)

SpecRace == InitRace /\ [][NextRace]_vars

\* a handle for bundle B, of which some versions may be installed, with one
\* remote of one accessor config
InitResolve ==
    /\ bundles \in {[b \in BundleIds |->
                        [v \in Versions |->
                            IF b = BundleB /\ v \in V THEN Unpacked ELSE NoDir]] :
                    V \in SUBSET Versions}
    /\ store = SourceGraph
    /\ imports = [configured |-> FALSE, edges |-> {}]
    /\ menu = "plain"
    /\ callers = {}
    /\ InitInstallers
    /\ remotes \in {<<<<a>>>> : a \in AccessorConfigs}
    /\ InitFetchers
    /\ handle \in [version : Versions \cup {NoVersion}, given : BOOLEAN]
    /\ owmDir \in BOOLEAN
    /\ InitHandle
    /\ NoListing
    /\ Elsewhere
    /\ Unused

NextResolve == Resolve \/ NextLoader("f1") \/ TryLoader("f1") \/ ResolveFetched

SpecResolve == InitResolve /\ [][NextResolve]_vars

\* a handle for bundle B whose id directory holds any entries
InitLookup ==
    /\ bundles = NoBundles
    /\ store = SourceGraph
    /\ imports = [configured |-> FALSE, edges |-> {}]
    /\ menu = "plain"
    /\ callers = {}
    /\ InitInstallers
    /\ remotes = <<>>
    /\ InitFetchers
    /\ NoHandle
    /\ listing \in Listings
    /\ located = NoLookup
    /\ Elsewhere
    /\ Unused

NextLookup == Lookup \/ MakeStagingDirectory

SpecLookup == InitLookup /\ [][NextLookup]_vars

\* a directory install() created and left without graphs/ and files/
StagedOnly == [NoDir EXCEPT !.exists = TRUE]

\* an installed bundle after a later install into it failed and was cleaned up
Wiped == [NoDir EXCEPT !.exists = TRUE, !.manifest = TRUE]

\* a handle for bundle B, pinned or not, whose version directories are
\* absent, fetched, staged only, or wiped
InitScope ==
    /\ bundles \in {[b \in BundleIds |->
                        [v \in Versions |-> IF b = BundleB THEN d[v] ELSE NoDir]] :
                    d \in [Versions -> {NoDir, Unpacked, StagedOnly, Wiped}]}
    /\ store = SourceGraph
    /\ imports = [configured |-> FALSE, edges |-> {}]
    /\ menu = "plain"
    /\ callers = {}
    /\ InitInstallers
    /\ remotes = <<>>
    /\ InitFetchers
    /\ handle \in [version : Versions \cup {NoVersion}, given : {FALSE}]
    /\ owmDir = FALSE
    /\ InitHandle
    /\ NoListing
    /\ Elsewhere
    /\ Unused

NextScope == Enter \/ Exit

SpecScope == InitScope /\ [][NextScope]_vars

\* resolve() on a handle while another Fetcher, f2, fetches into the same
\* bundles directory
NextReresolve ==
    \/ NextResolve
    \/ Fetch("f2")
    \/ NextLoader("f2")
    \/ TryLoader("f2")

SpecReresolve == InitResolve /\ [][NextReresolve]_vars

\* any pattern and any identifier
InitMatch ==
    /\ bundles = NoBundles
    /\ store = SourceGraph
    /\ imports = [configured |-> FALSE, edges |-> {}]
    /\ menu = "plain"
    /\ callers = {}
    /\ InitInstallers
    /\ remotes = <<>>
    /\ InitFetchers
    /\ NoHandle
    /\ NoListing
    /\ scope = OutOfScope
    /\ probe \in [pat : MatchPatterns, uri : Uris, said : {"none"}]
    /\ pair = NoPair
    /\ last = NoLast
    /\ Unused

NextMatch == Match \/ NextUri

SpecMatch == InitMatch /\ [][NextMatch]_vars

\* any two Remote values
InitRemote ==
    /\ bundles = NoBundles
    /\ store = SourceGraph
    /\ imports = [configured |-> FALSE, edges |-> {}]
    /\ menu = "plain"
    /\ callers = {}
    /\ InitInstallers
    /\ remotes = <<>>
    /\ InitFetchers
    /\ NoHandle
    /\ NoListing
    /\ scope = OutOfScope
    /\ probe = NoProbe
    /\ pair \in {[NoPair EXCEPT !.a = a, !.b = b] : a, b \in Remotes}
    /\ last = NoLast
    /\ Unused

NextRemote == Compare \/ Hash

SpecRemote == InitRemote /\ [][NextRemote]_vars

\* a handle without remotes whose contexts are read while another Fetcher,
\* f2, fetches into the same bundles directory
InitContexts ==
    /\ bundles \in {[b \in BundleIds |->
                        [v \in Versions |-> IF b = BundleB /\ v = 1 THEN d ELSE NoDir]] :
                    d \in {NoDir, InstalledDir(<<CtxX, CtxY>>), Unpacked, Wiped}}
    /\ store = SourceGraph
    /\ imports = [configured |-> FALSE, edges |-> {}]
    /\ menu = "plain"
    /\ callers = {}
    /\ InitInstallers
    /\ remotes \in {<<<<a>>>> : a \in AccessorConfigs}
    /\ InitFetchers
    /\ handle \in [version : Versions \cup {NoVersion}, given : {FALSE}]
    /\ owmDir = FALSE
    /\ InitHandle
    /\ NoListing
    /\ Elsewhere
    /\ Unused

NextContexts ==
    \/ ReadContexts
    \/ Fetch("f2")
    \/ NextLoader("f2")
    \/ TryLoader("f2")

SpecContexts == InitContexts /\ [][NextContexts]_vars

\* one loader, whatever its index URL serves
InitLoader ==
    /\ bundles = NoBundles
    /\ store = SourceGraph
    /\ imports = [configured |-> FALSE, edges |-> {}]
    /\ menu = "plain"
    /\ callers = {}
    /\ InitInstallers
    /\ remotes = <<>>
    /\ InitFetchers
    /\ NoHandle
    /\ NoListing
    /\ Elsewhere
    /\ reader = NoReader
    /\ loader \in {NewLoader(doc) : doc \in IndexDocuments}

NextLoaderCall == CanLoad \/ BundleVersions \/ Load

SpecLoader == InitLoader /\ [][NextLoaderCall]_vars

----------------------------------------------------------------------------
\* Properties of install().

StagingOf(i) == DirAt(bundles, staging_directory(desc[i]))

\* install() is about to raise: the with block is left with an exception
Raising(i) == pc[i] = "release" /\ err[i] # NoErr

\* C1: whenever install() raises, whichever step of _install failed, the
\* staging directory holds neither graphs/ nor files/ afterwards.
C1_NoPartialInstall ==
    \A i \in Installers : Raising(i) => ~StagingOf(i).graphs /\ ~StagingOf(i).files

\* an install that failed after graphs/ and files/ were filled has raised
C1_Witness ==
    \E i \in Installers : Raising(i) /\ failed[i] = "contexts" /\ StagingOf(i).exists

\* C2: when a step of _install raises E, install() cleans up and raises
\* exactly E: the cleanup never replaces E with another error.
C2_CleanupKeepsError ==
    \A i \in Installers : Raising(i) => err[i] = origErr[i]

InstallSpecific == {"InstallFailed", "MissingImports"}

\* C3: every error install() surfaces is InstallFailed or MissingImports,
\* also when an included file is missing from the source directory and when
\* covering the imports with the dependencies fails.
C3_InstallSpecificError ==
    \A i \in Installers :
        Raising(i) /\ failed[i] \in {"files", "contexts"}
            => err[i].kind \in InstallSpecific

InLockedPart(i) ==
    pc[i] \in {"setup", "files", "contexts", "manifest", "cleanup", "release"}

\* C4: two install() calls for the same bundle id and version are never both
\* in the locked part of install().
C4_MutualExclusion ==
    \A i, j \in Installers :
        i # j /\ InLockedPart(i) /\ InLockedPart(j)
            => staging_directory(desc[i]) # staging_directory(desc[j])

\* one installer packages contexts while the other waits for the lock
C4_Witness ==
    \E i, j \in Installers :
        /\ i # j
        /\ pc[i] = "contexts"
        /\ pc[j] = "lock"
        /\ staging_directory(desc[i]) = staging_directory(desc[j])

\* the contexts a descriptor selects from the source graph
Included(descriptor) ==
    {c \in DOMAIN store :
        \/ \E inc \in descriptor.includes : IncludeMatches(inc, c)
        \/ \E pat \in descriptor.patterns : PatternMatches(pat, c)}

\* the contexts reachable from S along the imports edges
RECURSIVE ImportsClosure(_)
ImportsClosure(S) ==
    LET next == S \cup {e[2] : e \in {e \in imports.edges : e[1] \in S}}
    IN IF next = S THEN S ELSE ImportsClosure(next)

\* every declared dependency is installed locally, with its index
DependenciesInstalled(descriptor) ==
    \A d \in descriptor.dependencies : contexts(bundles, d.id, d.version).err = NoErr

DependencyContexts(descriptor) ==
    UNION {contexts(bundles, d.id, d.version).contexts : d \in descriptor.dependencies}

\* what the bundle imports and neither holds nor gets from a dependency
Uncovered(descriptor) ==
    (ImportsClosure(Included(descriptor)) \ Included(descriptor))
        \ DependencyContexts(descriptor)

\* _write_context_data has run in the current call of i
ContextsPackaged(i) ==
    \/ pc[i] = "manifest"
    \/ pc[i] = "release" /\ failed[i] \in {"none", "contexts"}

\* C5: with an imports context, when imports stay uncovered, the install
\* fails with MissingImports whose set is the closure of the imports of the
\* included contexts, less the included contexts, less the contexts of the
\* declared dependency bundles.
C5_MissingImportsExact ==
    \A i \in Installers :
        /\ ContextsPackaged(i)
        /\ imports.configured
        /\ DependenciesInstalled(desc[i])
        /\ Uncovered(desc[i]) # {}
        => origErr[i] = MissingImports(Uncovered(desc[i]))

\* C6: when every imported context is included or held by a declared,
\* locally installed dependency bundle, the closure check lets the install
\* succeed, whatever else the dependency bundles hold.
C6_CoveredInstallSucceeds ==
    \A i \in Installers :
        /\ ContextsPackaged(i)
        /\ imports.configured
        /\ DependenciesInstalled(desc[i])
        /\ Uncovered(desc[i]) = {}
        => failed[i] # "contexts"

----------------------------------------------------------------------------
\* Properties of fetch().

Finished(f) == fpc[f] \in {"returned", "raised"}

LastTried(f) == log[f][Len(log[f])]

\* the loaders that claim the bundle, as fetch() was asked for it
Capable(f) ==
    {q \in Places : can_load_from(ConfigAt(q)) /\ can_load(ConfigAt(q), wanted[f]) = "true"}

\* C7: fetch() tries the capable loaders in turn, remotes in order and
\* accessor configs in order, and returns the target directory of the first
\* loader whose load succeeds; a failure of an earlier loader while listing
\* versions or loading never ends the fetch.
C7_FirstSuccessfulLoader ==
    \A f \in Fetchers :
        /\ \A k \in DOMAIN log[f] :
              /\ k < Len(log[f]) => log[f][k].err # NoErr
              /\ k < Len(log[f]) => Before(log[f][k].loader, log[f][k + 1].loader)
              /\ \A q \in Capable(f) :
                    Before(q, log[f][k].loader) => \E j \in 1..k : log[f][j].loader = q
        /\ fpc[f] = "returned" =>
              /\ log[f] # <<>>
              /\ LastTried(f).err = NoErr
              /\ fdir[f] = bundle_directory(BundleB, LastTried(f).version)
              /\ DirAt(bundles, fdir[f]).manifest
        /\ fpc[f] = "raised" => ferr[f].at \notin {"bundle_versions", "load"}
        /\ fpc[f] = "loaders" /\ log[f] # <<>> => LastTried(f).err # NoErr

\* fetch() returned after an earlier loader had failed
C7_Witness ==
    \E f \in Fetchers : fpc[f] = "returned" /\ Len(log[f]) >= 2

\* C8: when no loader claims the bundle, or every candidate fails, fetch()
\* raises NoBundleLoader, with the version unspecified or pinned.
C8_NoBundleLoaderRaised ==
    \A f \in Fetchers :
        fpc[f] = "raised" /\ ferr[f].at # "can_load" => ferr[f].kind = "NoBundleLoader"

\* C9: when no loader of the first of two remotes accepts the bundle and a
\* loader of the second does, fetch() succeeds through the second remote,
\* and no loader whose can_load returned false is asked for versions or to load.
C9_FallbackToSecondRemote ==
    \A f \in Fetchers :
        /\ \A k \in DOMAIN log[f] :
              can_load(ConfigAt(log[f][k].loader), wanted[f]) = "true"
        /\ /\ Finished(f)
           /\ Len(remotes) = 2
           /\ \A q \in Places : q[1] = 1 /\ can_load_from(ConfigAt(q))
                                   => can_load(ConfigAt(q), wanted[f]) = "false"
           /\ \E q \in Capable(f) : q[1] = 2
           /\ Attempt(ConfigAt(First(Capable(f))), wanted[f]).err = NoErr
           => /\ fpc[f] = "returned"
              /\ LastTried(f).loader[1] = 2

\* fetch() returned through the second remote after the loader of the first
\* remote had declined
C9_Witness ==
    \E f \in Fetchers :
        /\ fpc[f] = "returned"
        /\ Len(remotes) = 2
        /\ LastTried(f).loader[1] = 2
        /\ can_load_from(ConfigAt(<<1, 1>>))
        /\ can_load(ConfigAt(<<1, 1>>), wanted[f]) = "false"

----------------------------------------------------------------------------
\* Properties of resolve().

\* C10: when the bundle is not located locally, the handle was given no
\* remotes and there are no project-local remotes, resolve() raises the
\* BundleNotFound of the local lookup.
C10_NotFoundPropagates ==
    rpc = "raised" /\ ~handle.given /\ ~owmDir => rerr.kind = "BundleNotFound"

\* the entries that are directories named by a positive integer
VersionDirectories(l) ==
    {e \in l.ents : e.is_dir /\ parse_int(e.name).ok /\ parse_int(e.name).val > 0}

\* C11: without a pinned version the local lookup returns the subdirectory of
\* the id directory whose name is the largest positive integer, entries
\* whose names are no integers are ignored, and the lookup fails with
\* BundleNotFound when no subdirectory is named by a positive integer or the
\* id directory is absent.
C11_LargestVersionDirectory ==
    located.done =>
        IF listing.present /\ VersionDirectories(listing) # {}
        THEN /\ located.err = NoErr
             /\ \E e \in VersionDirectories(listing) :
                   /\ e.name = located.name
                   /\ \A o \in VersionDirectories(listing) :
                         parse_int(o.name).val <= parse_int(e.name).val
        ELSE located.err = BundleNotFound

----------------------------------------------------------------------------
\* Properties of the installed bundle directory.

\* install() has written the manifest and is about to return
Succeeded(i) == pc[i] = "release" /\ err[i] = NoErr

\* the hex form of a digest
HexOf(digest) == <<"hex", digest[2]>>

\* C12: after a successful install every context id listed in graphs/index
\* has exactly one index record and exactly one graphs/hashes record, and the
\* file name of its index record is the hex form of the digest of its hash
\* record followed by '.nt' and names a file in graphs/.
C12_OneRecordPerContext ==
    \A i \in Installers :
        Succeeded(i) =>
            LET d == StagingOf(i)
            IN \A k \in DOMAIN d.index :
                  /\ Cardinality({j \in DOMAIN d.index : d.index[j].ctx = d.index[k].ctx}) = 1
                  /\ Cardinality({j \in DOMAIN d.hashes : d.hashes[j].ctx = d.index[k].ctx}) = 1
                  /\ \E j \in DOMAIN d.hashes :
                        /\ d.hashes[j].ctx = d.index[k].ctx
                        /\ d.index[k].fname = <<HexOf(d.hashes[j].digest), ".nt">>
                  /\ d.index[k].fname \in d.nt

\* the contents of a bundle version directory: graphs/, files/ and manifest
Contents(dir) ==
    [graphs |-> dir.graphs, hasIndex |-> dir.hasIndex, index |-> dir.index,
     hashes |-> dir.hashes, nt |-> dir.nt, files |-> dir.files,
     hasFileHashes |-> dir.hasFileHashes, fileHashes |-> dir.fileHashes,
     copied |-> dir.copied, manifest |-> dir.manifest]

\* C13: once install() has succeeded for a bundle id and version, which the
\* manifest it wrote last records, no step of a later install() for the same
\* id and version changes or removes the graphs/, files/ or manifest contents
\* of that directory.
C13_InstalledBundleImmutable ==
    [][\A d \in StagingDirs :
          DirAt(bundles, d).manifest
              => Contents(DirAt(bundles', d)) = Contents(DirAt(bundles, d))]_vars

\* graphs/index, graphs/hashes and the graph files the index lists are there
GraphsComplete(dir) ==
    /\ dir.graphs
    /\ dir.hasIndex
    /\ Len(dir.hashes) = Len(dir.index)
    /\ \A k \in DOMAIN dir.index : dir.index[k].fname \in dir.nt

\* C14: in every state of a bundle version directory, whatever installs into
\* it have run or failed, a manifest implies that graphs/index, graphs/hashes
\* and every graph file listed in the index are written.
C14_ManifestImpliesComplete ==
    \A d \in StagingDirs : DirAt(bundles, d).manifest => GraphsComplete(DirAt(bundles, d))

----------------------------------------------------------------------------
\* Properties of the Bundle handle.

\* C15: the store opened on entering a Bundle's scope is released on every
\* path that leaves or abandons the scope, also when an exception is raised
\* while the graphs are loaded during entry.
C15_StoreReleased ==
    scope.pc \in {"left", "abandoned"} => ~scope.open

\* C17: after resolve() has returned a directory on a handle, a later
\* resolve() on the handle returns the same directory and does not call the
\* Fetcher, whatever versions were installed or fetched in between.
C17_ResolveCached ==
    [][rpc = "returned" => rpc' = "returned" /\ rdir' = rdir]_vars

----------------------------------------------------------------------------
\* Properties of the selection of contexts.

\* C16: installing the same descriptor from the same source store twice
\* gives the same graphs/hashes and graphs/index, record for record and in
\* the same order, whatever order the store enumerates its contexts in.
C16_RepeatableInstall ==
    \A i \in Installers :
        pc[i] = "manifest" /\ last.any /\ last.desc = desc[i]
            => /\ StagingOf(i).index = last.index
               /\ StagingOf(i).hashes = last.hashes

\* re.fullmatch(pattern, s): the pattern matches the whole of s
RECURSIVE WholeMatch(_, _)
WholeMatch(re, s) ==
    IF re = <<>> THEN s = <<>>
    ELSE LET atom == Head(re)
             rest == Tail(re)
         IN IF rest # <<>> /\ Head(rest) = "*"
            THEN \/ WholeMatch(Tail(rest), s)
                 \/ s # <<>> /\ AtomMatches(atom, Head(s)) /\ WholeMatch(re, Tail(s))
            ELSE IF rest # <<>> /\ Head(rest) = "?"
            THEN \/ WholeMatch(Tail(rest), s)
                 \/ /\ s # <<>>
                    /\ AtomMatches(atom, Head(s))
                    /\ WholeMatch(Tail(rest), Tail(s))
            ELSE s # <<>> /\ AtomMatches(atom, Head(s)) /\ WholeMatch(rest, Tail(s))

\* a glob without '*' and '?'
NoWildcards(pat) ==
    pat.kind = "glob" /\ \A k \in DOMAIN pat.text : pat.text[k] \notin {"*", "?"}

\* C18: a pattern matcher says yes to an identifier only if the whole
\* identifier matches the pattern, not a prefix of it; a pattern without
\* wildcards matches the identical string only.
C18_WholeStringMatch ==
    probe.said = "true" =>
        /\ WholeMatch(make_pattern(probe.pat), probe.uri)
        /\ NoWildcards(probe.pat) => probe.uri = probe.pat.text

\* C19: the contexts an install packages are exactly the contexts of the
\* source store that an include or a pattern of the descriptor matches.
C19_PackagedIsSelected ==
    \A i \in Installers :
        pc[i] = "manifest" \/ Succeeded(i) =>
            {StagingOf(i).index[k].ctx : k \in DOMAIN StagingOf(i).index} = Included(desc[i])

\* an install has packaged some contexts of the store and left one out
C19_Witness ==
    \E i \in Installers :
        /\ Succeeded(i)
        /\ StagingOf(i).index # <<>>
        /\ DOMAIN store \ Included(desc[i]) # {}

----------------------------------------------------------------------------
\* Properties of Remote.

\* C20: two Remote values with the same name and equal accessor configs
\* compare equal and have equal hash values: hash(remote) gives a value,
\* not an error.
C20_EqualRemotesHashEqual ==
    /\ pair.eq # "none" =>
          (pair.eq = "true" <=> /\ pair.a.name = pair.b.name
                                /\ pair.a.accessor_configs = pair.b.accessor_configs)
    /\ pair.hashed =>
          /\ pair.ha.err = NoErr
          /\ pair.hb.err = NoErr
          /\ pair.eq = "true" => pair.ha.val = pair.hb.val

----------------------------------------------------------------------------
\* More properties of fetch().

\* C21: when fetch() is called with no version, every candidate that is
\* tried and lists versions is asked to load its own largest version,
\* whatever earlier, failed candidates offered.
C21_OwnMaximumVersion ==
    \A f \in Fetchers :
        wanted[f] = NoVersion =>
            \A k \in DOMAIN log[f] :
                LET vs == bundle_versions(ConfigAt(log[f][k].loader))
                IN vs.err = NoErr /\ vs.versions # {}
                       => log[f][k].version = Max(vs.versions)

\* C22: a loader whose can_load raises during fetch() is a failed candidate
\* like any other: fetch() goes on with the later loaders and does not pass
\* that error on to its caller.
C22_CanLoadFailureCaught ==
    \A f \in Fetchers : fpc[f] = "raised" => ferr[f].at # "can_load"

----------------------------------------------------------------------------
\* More properties of the closure check.

\* the imported contexts the bundle does not hold itself, before any
\* dependency is looked at
UncoveredAtFirst(descriptor) ==
    ImportsClosure(Included(descriptor)) \ Included(descriptor)

\* C23: once the uncovered set is empty no further declared dependency is
\* resolved or read: with nothing left to cover, no dependency causes a
\* lookup, a fetch or an error of the closure check.
C23_NoDependencyVisitedWhenCovered ==
    \A i \in Installers :
        /\ ContextsPackaged(i)
        /\ imports.configured
        /\ UncoveredAtFirst(desc[i]) = {}
        => failed[i] # "contexts"

\* C24: without an imports context install() does nothing of the closure
\* check: no declared dependency is resolved, and the install cannot fail
\* because of imports or dependencies, whatever the descriptor declares.
C24_NoImportsContextNoCheck ==
    \A i \in Installers :
        ContextsPackaged(i) /\ ~imports.configured => failed[i] # "contexts"

----------------------------------------------------------------------------
\* More properties of the Bundle handle.

\* C25: resolve() consults the remotes only when no version was pinned: for
\* a pinned version whose directory is absent it calls no Fetcher.
C25_PinnedNeverFetched ==
    handle.version # NoVersion => rpc # "fetching"

\* C25, as the code has it: when the local lookup fails on a handle that was
\* given remotes, resolve() calls the Fetcher with the handle's version,
\* pinned or not, and raises no BundleNotFound of its own.
C25_FetchedWhateverThePin ==
    /\ rpc = "fetching" => handle.given /\ wanted["f1"] = handle.version
    /\ rpc = "raised" /\ handle.given => rerr.at \notin {"_get_bundle_directory", "resolve"}

\* resolve() has called the Fetcher for a pinned version
C25_Witness ==
    rpc = "fetching" /\ handle.version # NoVersion

\* the context ids of graphs/index in the directory a lookup now finds
IndexedContexts ==
    LET r == _get_bundle_directory(bundles, BundleB, handle.version)
    IN {DirAt(bundles, r.dir).index[k].ctx : k \in DOMAIN DirAt(bundles, r.dir).index}

\* C26: reading the contexts property returns exactly the context ids of
\* graphs/index, on a handle that never entered scope and without touching
\* its conf; after the first read that succeeded, later reads return the same
\* set and neither resolve nor read the index again.
C26_ContextsReadOnce ==
    [][reader' # reader =>
          /\ scope' = scope
          /\ scope = OutOfScope
          /\ ~reader.cached /\ reader'.got.err = NoErr
                => reader'.got.val = IndexedContexts /\ reader'.cached
          /\ reader.cached
                => /\ reader'.got = [done |-> TRUE, err |-> NoErr, val |-> reader.val]
                   /\ reader'.resolves = reader.resolves
                   /\ reader'.val = reader.val]_vars

\* the property was read again after another version with other contexts
\* had arrived
C26_Witness ==
    /\ reader.cached
    /\ reader.asked >= 2
    /\ reader.resolves = 1
    /\ IndexedContexts # reader.val

----------------------------------------------------------------------------
\* Properties of the install lock and of the failure cleanup.

\* C27: the lock of the staging directory is held from its acquisition until
\* install() exits, no installer holds a lock after install() has returned or
\* raised (also when the cleanup itself raised), and an installer waiting for
\* the lock eventually acquires it.
C27_LockHeldThenReleased ==
    /\ [](\A i \in Installers :
            /\ InLockedPart(i) => lock[staging_directory(desc[i])] = i
            /\ pc[i] \in {"idle", "returned", "raised"}
                  => \A d \in StagingDirs : lock[d] # i)
    /\ \A j \in Installers : (pc[j] = "lock") ~> (pc[j] = "setup")

\* one installer waits for the lock while the other, whose cleanup has just
\* raised, is about to leave install()
C27_Witness ==
    \E i, j \in Installers :
        /\ i # j
        /\ pc[j] = "lock"
        /\ pc[i] = "release"
        /\ err[i] # NoErr
        /\ err[i].at \in {"rmtree graphs", "rmtree files"}
        /\ staging_directory(desc[i]) = staging_directory(desc[j])

\* a version directory without its graphs/ and files/ subdirectories
OutsideGraphsAndFiles(dir) == RemoveFiles(RemoveGraphs(dir))

\* C28: the cleanup after a failed install leaves the staging directory, its
\* lock and every entry of it other than graphs/ and files/ as they were, and
\* touches no other directory.
C28_CleanupRemovesOnlyGraphsAndFiles ==
    [][\A i \in Installers :
          pc[i] = "cleanup" /\ pc'[i] = "release"
              => /\ lock' = lock
                 /\ OutsideGraphsAndFiles(DirAt(bundles', staging_directory(desc[i])))
                        = OutsideGraphsAndFiles(StagingOf(i))
                 /\ DirAt(bundles', staging_directory(desc[i])).exists
                 /\ \A b \in BundleIds, v \in Versions :
                        bundle_directory(b, v) # staging_directory(desc[i])
                            => bundles'[b][v] = bundles[b][v]]_vars

\* the cleanup has removed graphs/ and files/ of a staging directory that
\* holds a manifest, which is still there
C28_Witness ==
    \E i \in Installers :
        /\ Raising(i)
        /\ err[i].at \notin {"rmtree graphs", "rmtree files"}
        /\ StagingOf(i).exists
        /\ StagingOf(i).manifest
        /\ ~StagingOf(i).graphs
        /\ ~StagingOf(i).files
        /\ lock[staging_directory(desc[i])] = i

----------------------------------------------------------------------------
\* Properties of concurrent fetches.

\* the loader a fetch is about to try would load
LoadWouldSucceed(f) ==
    fpc[f] = "try" /\ Attempt(ConfigAt(position[f]), bversion[f]).err = NoErr

\* C30: fetches are not mutually excluded: no step of a fetch takes a lock,
\* and a fetch whose loader can load begins to extract into its target
\* directory whatever the other fetch is doing.
C30_FetchesNotExcluded ==
    /\ \A d \in StagingDirs : lock[d] = "free"
    /\ \A f \in Fetchers : LoadWouldSucceed(f) => ENABLED BeginUnpack(f)

\* two fetches of the same bundle and version are both extracting into the
\* same target directory
C30_Witness ==
    /\ fpc["f1"] = "unpacking"
    /\ fpc["f2"] = "unpacking"
    /\ wanted["f1"] = wanted["f2"]
    /\ bversion["f1"] = bversion["f2"]
    /\ fdir["f1"] = fdir["f2"]
    /\ DirAt(bundles, fdir["f1"]).exists

----------------------------------------------------------------------------
\* Properties of HTTPBundleLoader.

\* C29: whatever calls of can_load, bundle_versions and load are made on one
\* loader, the index document is retrieved at most once, and not before the
\* first call.
C29_IndexRetrievedOnce ==
    /\ loader.gets <= 1
    /\ loader.calls = <<>> => loader.gets = 0

----------------------------------------------------------------------------
\* Properties of the local lookup among installs, and of can_load.

\* the handles of bundle B: pinned to a version, or not pinned
Pins == Versions \cup {NoVersion}

\* C31: whatever installs have run, failed or are under way, the directory
\* the local lookup returns for the bundle holds a manifest and the
\* graphs/index it refers to.
C31_ResolvedIsComplete ==
    \A pinned \in Pins :
        LET r == _get_bundle_directory(bundles, BundleB, pinned)
        IN r.err = NoErr
              => /\ DirAt(bundles, r.dir).manifest
                 /\ DirAt(bundles, r.dir).graphs
                 /\ DirAt(bundles, r.dir).hasIndex

\* the index has a URL for the version: load would find binfo.get(str(v))
HasUrl(ac, v) ==
    /\ ac.http
    /\ ac.reachable
    /\ ac.binfo.kind = "dict"
    /\ str(v) \in DOMAIN ac.binfo.d

\* C32: when fetch() is called with an integer version, every loader whose
\* index maps the bundle to a mapping from version strings to URLs accepts
\* the bundle exactly when that mapping has a URL for the version.
C32_CanLoadIffUrl ==
    \A f \in Fetchers :
        fpc[f] # "idle" /\ wanted[f] \in Versions
            => \A q \in Places :
                  ConfigAt(q).http /\ ConfigAt(q).reachable
                                   /\ ConfigAt(q).binfo.kind = "dict"
                      => (can_load(ConfigAt(q), wanted[f]) = "true"
                              <=> HasUrl(ConfigAt(q), wanted[f]))

====
